---------------------------- MODULE Spec2Model ----------------------------
(***************************************************************************)
(* Model of tile_generator.py: main() and the two pyramid back ends,       *)
(* run_vips() (external `vips dzsave`) and pil_deepzoom() (Pillow).        *)
(*                                                                         *)
(* One behaviour is one invocation of the command.  The input file, the    *)
(* presence of vips on PATH, the prior existence of the output directory   *)
(* and the tile size handed to pil_deepzoom are fixed by Init; every       *)
(* statement of the code that can raise has a failing twin action.         *)
(*                                                                         *)
(* Arithmetic: the code computes int(ceil(a / b)) and int(ceil(log2(n)))   *)
(* in IEEE doubles.  For the image sizes Pillow can hold (< 2^31) these    *)
(* are exact, so they are modelled on the integers.                        *)
(***************************************************************************)
EXTENDS Integers, Sequences, FiniteSets, TLC

\* Bounds of the enumerated inputs.
MaxDim  == 4
MaxTile == 3

\* tile_size passed by main() to pil_deepzoom.
DefaultTileSize == 256

\* Exit statuses of the process.
InputNotFoundStatus     == 1   \* sys.exit(1)
UncaughtExceptionStatus == 1   \* interpreter, exception leaving main()
UsageErrorStatus        == 2   \* argparse, parser.error()
SuccessStatus           == 0   \* main() returns

VARIABLES
    pc,          \* position in main() / pil_deepzoom()
    src,         \* the input file: [exists, decodable, W, H]
    vips,        \* has_vips()
    tile_size,   \* parameter of pil_deepzoom
    outDir,      \* out_dir exists on disk
    filesDir,    \* out_dir/image_files exists on disk
    levelDirs,   \* levels whose directory out_dir/image_files/<level> exists
    tiles,       \* tile files written by pil_deepzoom, with the rectangle cropped
    vipsOutput,  \* vips dzsave wrote out_dir/image.dzi and out_dir/image_files
    dzi,         \* out_dir/image.dzi: "absent", "partial" or "complete"
    imgOpen,     \* img (the decoded source) is held
    held,        \* levels whose level_img raster is held
    width, height, max_level,
    level, level_w, level_h, cols, rows, r, c,
    levelsDone,  \* [level, w, h] of each level whose loop body ended, in order
    vipsOutcome, \* "none", "ok", "CalledProcessError", "OSError"
    pilRuns,     \* number of calls of pil_deepzoom
    failure,     \* "none" or the statement that raised
    exitStatus   \* << >> while the process runs, then << status >>

vars == << pc, src, vips, tile_size, outDir, filesDir, levelDirs, tiles,
           vipsOutput, dzi, imgOpen, held, width, height, max_level,
           level, level_w, level_h, cols, rows, r, c, levelsDone,
           vipsOutcome, pilRuns, failure, exitStatus >>

disk   == << outDir, filesDir, levelDirs, tiles, vipsOutput, dzi >>
env    == << src, vips, tile_size >>
locals == << imgOpen, held, width, height, max_level,
             level, level_w, level_h, cols, rows, r, c, levelsDone >>
levelLocals == << level, level_w, level_h, cols, rows, r, c >>

-----------------------------------------------------------------------------
(* Pure arithmetic of pil_deepzoom *)

Max(a, b) == IF a >= b THEN a ELSE b
Min(a, b) == IF a <= b THEN a ELSE b

RECURSIVE Pow2(_)
\* 2 ** k
Pow2(k) == IF k <= 0 THEN 1 ELSE 2 * Pow2(k - 1)

RECURSIVE Log2Up(_, _)
Log2Up(n, k) == IF Pow2(k) >= n THEN k ELSE Log2Up(n, k + 1)

RECURSIVE Log2Down(_, _)
Log2Down(n, k) == IF Pow2(k + 1) > n THEN k ELSE Log2Down(n, k + 1)

\* int(floor(log2(n))): the level count that forgets the ceil
FloorLog2(n) == Log2Down(n, 0)

\* int(ceil(log2(max_dim)))
CeilLog2(n) == Log2Up(n, 0)

\* a // b: the division that forgets the ceil
FloorDiv(a, b) == a \div b

\* int(ceil(a / b)) for level_w, level_h
LevelDim(a, b) == (a + b - 1) \div b

\* a // b: the grid that drops the partial edge tile
FloorGrid(a, b) == a \div b

\* int(ceil(level_w / tile_size)) for cols, rows
GridCount(a, b) == (a + b - 1) \div b

\* left + tile_size: the edge that forgets the clamp
UnclampedEdge(start, size, limit) == start + size

\* min(left + tile_size, level_w)
TileEdge(start, size, limit) == Min(start + size, limit)

-----------------------------------------------------------------------------
(* Inputs *)

SmallInputs == { << w, h, t >> : w \in 1..MaxDim, h \in 1..MaxDim, t \in 1..MaxTile }

\* Sizes named by the specification, cut with main()'s tile size.
NamedInputs == { << 512, 256, DefaultTileSize >>,
                 << 300, 200, DefaultTileSize >>,
                 << 1, 1, DefaultTileSize >> }

Inputs == SmallInputs \cup NamedInputs

Init ==
    /\ pc = "parse_args"
    /\ \E i \in Inputs, e \in BOOLEAN, d \in BOOLEAN :
          /\ src = [exists |-> e, decodable |-> d, W |-> i[1], H |-> i[2]]
          /\ tile_size = i[3]
    /\ vips \in BOOLEAN
    /\ outDir \in BOOLEAN
    /\ filesDir = FALSE
    /\ levelDirs = {}
    /\ tiles = {}
    /\ vipsOutput = FALSE
    /\ dzi = "absent"
    /\ imgOpen = FALSE
    /\ held = {}
    /\ width = 0 /\ height = 0 /\ max_level = 0
    /\ level = 0 /\ level_w = 0 /\ level_h = 0
    /\ cols = 0 /\ rows = 0 /\ r = 0 /\ c = 0
    /\ levelsDone = << >>
    /\ vipsOutcome = "none"
    /\ pilRuns = 0
    /\ failure = "none"
    /\ exitStatus = << >>

-----------------------------------------------------------------------------
(* Leaving the process *)

\* The statuses with a bare sys.exit() on the missing input.
ExitStatusSilent(kind) ==
    CASE kind = "usage"         -> UsageErrorStatus
      [] kind = "input_missing" -> SuccessStatus
      [] OTHER                  -> UncaughtExceptionStatus

\* Status of the process for each way main() can end in failure.
ExitStatusOf(kind) ==
    CASE kind = "usage"         -> UsageErrorStatus
      [] kind = "input_missing" -> InputNotFoundStatus
      [] OTHER                  -> UncaughtExceptionStatus

\* sys.exit / an exception leaving main(): nothing else changes.
Raise(kind) ==
    /\ pc' = "Failed"
    /\ failure' = kind
    /\ exitStatus' = << ExitStatusOf(kind) >>

\* main() returns normally.
Return ==
    /\ pc' = "Done"
    /\ exitStatus' = << SuccessStatus >>
    /\ UNCHANGED failure

-----------------------------------------------------------------------------
(* main() *)

\* parser.parse_args() accepts the command line.
ParseArgs ==
    /\ pc = "parse_args"
    /\ pc' = "check_input"
    /\ UNCHANGED << env, disk, locals, vipsOutcome, pilRuns, failure, exitStatus >>

\* parser.parse_args() rejects the command line: argparse exits with 2.
ParseArgsFails ==
    /\ pc = "parse_args"
    /\ Raise("usage")
    /\ UNCHANGED << env, disk, locals, vipsOutcome, pilRuns >>

\* if not os.path.exists(input_path): print(...); sys.exit(1)
InputNotFound ==
    /\ pc = "check_input"
    /\ ~src.exists
    /\ Raise("input_missing")
    /\ UNCHANGED << env, disk, locals, vipsOutcome, pilRuns >>

\* os.makedirs(out_dir, exist_ok=True)
MakeOutDir ==
    /\ pc = "check_input"
    /\ src.exists
    /\ outDir' = TRUE
    /\ pc' = "select_backend"
    /\ UNCHANGED << env, filesDir, levelDirs, tiles, vipsOutput, dzi, locals,
                    vipsOutcome, pilRuns, failure, exitStatus >>

\* os.makedirs(out_dir, exist_ok=True) raises OSError.
MakeOutDirFails ==
    /\ pc = "check_input"
    /\ src.exists
    /\ ~outDir
    /\ Raise("makedirs_out")
    /\ UNCHANGED << env, disk, locals, vipsOutcome, pilRuns >>

\* if has_vips(): ... else fall through to pil_deepzoom
SelectBackend ==
    /\ pc = "select_backend"
    /\ pc' = IF vips THEN "run_vips" ELSE "pil_open"
    /\ UNCHANGED << env, disk, locals, vipsOutcome, pilRuns, failure, exitStatus >>

\* run_vips(): subprocess.check_call returns; vips dzsave has written
\* out_dir/image.dzi and out_dir/image_files; main() returns.
RunVips ==
    /\ pc = "run_vips"
    /\ src.decodable
    /\ vipsOutcome' = "ok"
    /\ vipsOutput' = TRUE
    /\ dzi' = "complete"
    /\ Return
    /\ UNCHANGED << env, outDir, filesDir, levelDirs, tiles, locals, pilRuns >>

\* run_vips(): subprocess.check_call cannot start the process and raises
\* OSError, which `except subprocess.CalledProcessError` does not catch.
RunVipsOSError ==
    /\ pc = "run_vips"
    /\ vipsOutcome' = "OSError"
    /\ Raise("vips_oserror")
    /\ UNCHANGED << env, disk, locals, pilRuns >>

\* run_vips(): vips exits non-zero, check_call raises CalledProcessError,
\* main() prints and falls back to pil_deepzoom.  What a failed vips leaves
\* in out_dir is not in this code; it is taken to leave nothing.
RunVipsCalledProcessError ==
    /\ pc = "run_vips"
    /\ vipsOutcome' = "CalledProcessError"
    /\ pc' = "pil_open"
    /\ UNCHANGED << env, disk, locals, pilRuns, failure, exitStatus >>

-----------------------------------------------------------------------------
(* pil_deepzoom() *)

\* The reordering that creates image_files before decoding the input.
PilOpenFailsAfterMkdir ==
    /\ pc = "pil_open"
    /\ ~src.decodable
    /\ pilRuns' = pilRuns + 1
    /\ filesDir' = TRUE
    /\ Raise("decode")
    /\ UNCHANGED << env, outDir, levelDirs, tiles, vipsOutput, dzi, locals, vipsOutcome >>

\* os.makedirs(out_dir) (present already); Image.open(input_path).convert("RGB")
\* raises on an input that is no image: nothing has been created yet.
PilOpenFails ==
    /\ pc = "pil_open"
    /\ ~src.decodable
    /\ pilRuns' = pilRuns + 1
    /\ Raise("decode")
    /\ UNCHANGED << env, disk, locals, vipsOutcome >>

\* img = Image.open(input_path).convert("RGB"); width, height = img.size
PilOpen ==
    /\ pc = "pil_open"
    /\ src.decodable
    /\ pilRuns' = pilRuns + 1
    /\ imgOpen' = TRUE
    /\ width' = src.W
    /\ height' = src.H
    /\ pc' = "pil_plan"
    /\ UNCHANGED << env, disk, held, max_level, levelLocals, levelsDone,
                    vipsOutcome, failure, exitStatus >>

\* max_dim, max_level, levels; os.makedirs(files_dir); first iteration of
\* `for level in levels` (levels always holds level 0).
PilPlan ==
    /\ pc = "pil_plan"
    /\ max_level' = CeilLog2(Max(width, height))
    /\ filesDir' = TRUE
    /\ level' = 0
    /\ pc' = "level_resize"
    /\ UNCHANGED << env, outDir, levelDirs, tiles, vipsOutput, dzi, imgOpen, held,
                    width, height, level_w, level_h, cols, rows, r, c, levelsDone,
                    vipsOutcome, pilRuns, failure, exitStatus >>

\* os.makedirs(files_dir, exist_ok=True) raises OSError.
MakeFilesDirFails ==
    /\ pc = "pil_plan"
    /\ Raise("makedirs_files")
    /\ UNCHANGED << env, disk, locals, vipsOutcome, pilRuns >>

\* scale, level_w, level_h; level_img = img.resize((level_w, level_h), LANCZOS)
ResizeLevel ==
    /\ pc = "level_resize"
    /\ level_w' = LevelDim(width, Pow2(max_level - level))
    /\ level_h' = LevelDim(height, Pow2(max_level - level))
    /\ held' = held \cup {level}
    /\ pc' = "level_dir"
    /\ UNCHANGED << env, disk, imgOpen, width, height, max_level, level,
                    cols, rows, r, c, levelsDone,
                    vipsOutcome, pilRuns, failure, exitStatus >>

\* img.resize raises (MemoryError, ValueError).
ResizeLevelFails ==
    /\ pc = "level_resize"
    /\ Raise("resize")
    /\ UNCHANGED << env, disk, locals, vipsOutcome, pilRuns >>

\* os.makedirs(level_dir); cols, rows; entry of the two `for` loops.
MakeLevelDir ==
    /\ pc = "level_dir"
    /\ levelDirs' = levelDirs \cup {level}
    /\ cols' = GridCount(level_w, tile_size)
    /\ rows' = GridCount(level_h, tile_size)
    /\ r' = 0
    /\ c' = 0
    /\ pc' = IF cols' > 0 /\ rows' > 0 THEN "tile" ELSE "level_close"
    /\ UNCHANGED << env, outDir, filesDir, tiles, vipsOutput, dzi, imgOpen, held,
                    width, height, max_level, level, level_w, level_h, levelsDone,
                    vipsOutcome, pilRuns, failure, exitStatus >>

\* os.makedirs(level_dir, exist_ok=True) raises OSError.
MakeLevelDirFails ==
    /\ pc = "level_dir"
    /\ Raise("makedirs_level")
    /\ UNCHANGED << env, disk, locals, vipsOutcome, pilRuns >>

\* The rectangle cropped for grid position (c, r) and the file it is saved to.
Tile ==
    [ level |-> level, col |-> c, row |-> r,
      left  |-> c * tile_size,
      upper |-> r * tile_size,
      right |-> TileEdge(c * tile_size, tile_size, level_w),
      lower |-> TileEdge(r * tile_size, tile_size, level_h) ]

\* Next (r, c) of `for r in range(rows): for c in range(cols)`
NextTile ==
    IF c + 1 < cols
        THEN /\ c' = c + 1 /\ r' = r /\ pc' = "tile"
        ELSE IF r + 1 < rows
            THEN /\ c' = 0 /\ r' = r + 1 /\ pc' = "tile"
            ELSE /\ c' = c /\ r' = r /\ pc' = "level_close"

\* One iteration of the inner loop: crop, tile.save(tile_path, quality=quality)
SaveTile ==
    /\ pc = "tile"
    /\ tiles' = tiles \cup {Tile}
    /\ NextTile
    /\ UNCHANGED << env, outDir, filesDir, levelDirs, vipsOutput, dzi, imgOpen, held,
                    width, height, max_level, level, level_w, level_h, cols, rows,
                    levelsDone, vipsOutcome, pilRuns, failure, exitStatus >>

\* The handler that logs a failed tile.save and goes on with the next tile.
TileSaveFailsSwallowed ==
    /\ pc = "tile"
    /\ failure' = "tile_save"
    /\ NextTile
    /\ UNCHANGED << env, disk, imgOpen, held, width, height, max_level, level,
                    level_w, level_h, cols, rows, levelsDone,
                    vipsOutcome, pilRuns, exitStatus >>

\* level_img.crop or tile.save raises: no handler, the exception leaves
\* both loops, pil_deepzoom and main.
TileSaveFails ==
    /\ pc = "tile"
    /\ Raise("tile_save")
    /\ UNCHANGED << env, disk, locals, vipsOutcome, pilRuns >>

\* The loop body that never calls level_img.close().
CloseLevelLeaks ==
    /\ pc = "level_close"
    /\ levelsDone' = Append(levelsDone, [level |-> level, w |-> level_w, h |-> level_h])
    /\ IF level < max_level
          THEN /\ level' = level + 1 /\ pc' = "level_resize"
          ELSE /\ level' = level /\ pc' = "img_close"
    /\ UNCHANGED << env, disk, imgOpen, held, width, height, max_level,
                    level_w, level_h, cols, rows, r, c,
                    vipsOutcome, pilRuns, failure, exitStatus >>

\* level_img.close(); next iteration of `for level in levels`, or its end.
CloseLevel ==
    /\ pc = "level_close"
    /\ held' = held \ {level}
    /\ levelsDone' = Append(levelsDone, [level |-> level, w |-> level_w, h |-> level_h])
    /\ IF level < max_level
          THEN /\ level' = level + 1 /\ pc' = "level_resize"
          ELSE /\ level' = level /\ pc' = "img_close"
    /\ UNCHANGED << env, disk, imgOpen, width, height, max_level,
                    level_w, level_h, cols, rows, r, c,
                    vipsOutcome, pilRuns, failure, exitStatus >>

\* img.close()
CloseImg ==
    /\ pc = "img_close"
    /\ imgOpen' = FALSE
    /\ pc' = "dzi_open"
    /\ UNCHANGED << env, disk, held, width, height, max_level, levelLocals,
                    levelsDone, vipsOutcome, pilRuns, failure, exitStatus >>

\* open(dzi_path, "w"): the file exists from here on, empty.
OpenDzi ==
    /\ pc = "dzi_open"
    /\ dzi' = "partial"
    /\ pc' = "dzi_write"
    /\ UNCHANGED << env, outDir, filesDir, levelDirs, tiles, vipsOutput, locals,
                    vipsOutcome, pilRuns, failure, exitStatus >>

\* open(dzi_path, "w") raises OSError.
OpenDziFails ==
    /\ pc = "dzi_open"
    /\ Raise("dzi_open")
    /\ UNCHANGED << env, disk, locals, vipsOutcome, pilRuns >>

\* The four f.write calls, the close of the `with` block, the two prints;
\* pil_deepzoom and main return.
WriteDzi ==
    /\ pc = "dzi_write"
    /\ dzi' = "complete"
    /\ Return
    /\ UNCHANGED << env, outDir, filesDir, levelDirs, tiles, vipsOutput, locals,
                    vipsOutcome, pilRuns >>

\* A write or the flush at close raises OSError: the `with` block closes
\* the file and the exception leaves main; the file stays as it is.
WriteDziFails ==
    /\ pc = "dzi_write"
    /\ Raise("dzi_write")
    /\ UNCHANGED << env, disk, locals, vipsOutcome, pilRuns >>

-----------------------------------------------------------------------------

Next ==
    \/ ParseArgs \/ ParseArgsFails
    \/ InputNotFound
    \/ MakeOutDir \/ MakeOutDirFails
    \/ SelectBackend
    \/ RunVips \/ RunVipsCalledProcessError \/ RunVipsOSError
    \/ PilOpen \/ PilOpenFails
    \/ PilPlan \/ MakeFilesDirFails
    \/ ResizeLevel \/ ResizeLevelFails
    \/ MakeLevelDir \/ MakeLevelDirFails
    \/ SaveTile \/ TileSaveFails
    \/ CloseLevel
    \/ CloseImg
    \/ OpenDzi \/ OpenDziFails
    \/ WriteDzi \/ WriteDziFails

Spec == Init /\ [][Next]_vars

-----------------------------------------------------------------------------
(* Reference geometry, written from the definitions of ceil and log2 and   *)
(* not from the code's arithmetic.                                         *)

\* q = ceil(a / b), for a >= 1 and b >= 1
CeilQ(a, b) == CHOOSE q \in 0..a : q * b >= a /\ (q - 1) * b < a

\* k = ceil(log2(n)), for n >= 1
IsCeilLog2(k, n) == 2^k >= n /\ (k = 0 \/ 2^(k - 1) < n)

\* The top level of the plan of the input image.
PlanTop == CHOOSE k \in 0..Max(src.W, src.H) : IsCeilLog2(k, Max(src.W, src.H))

PlanW(i) == CeilQ(src.W, 2^(PlanTop - i))
PlanH(i) == CeilQ(src.H, 2^(PlanTop - i))

\* (level, col, row) of every tile file the plan implies for level i.
PlanTiles(i) ==
    { << i, cc, rr >> : cc \in 0..(CeilQ(PlanW(i), tile_size) - 1),
                        rr \in 0..(CeilQ(PlanH(i), tile_size) - 1) }

TileKeys == { << t.level, t.col, t.row >> : t \in tiles }

LevelTiles(i) == { t \in tiles : t.level = i }

Terminated == pc \in {"Done", "Failed"}

\* pil_deepzoom is inside `for level in levels`.
InLevels == pc \in {"level_resize", "level_dir", "tile", "level_close"}

\* pil_deepzoom has left `for level in levels` normally.
AfterLevels == pc \in {"img_close", "dzi_open", "dzi_write"} \/ (pc = "Done" /\ pilRuns = 1)

\* The raster of the current level exists with its size computed.
RasterReady == pc \in {"level_dir", "tile", "level_close"}

\* Failures of the input and failures of the environment or tooling.
BadInputFailures == {"input_missing", "decode"}
EnvFailures == {"makedirs_out", "vips_oserror", "makedirs_files", "resize",
                "makedirs_level", "tile_save", "dzi_open", "dzi_write"}

\* Failures of the steps of pil_deepzoom that precede the descriptor.
PyramidStepFailures == {"decode", "makedirs_files", "resize", "makedirs_level", "tile_save"}

-----------------------------------------------------------------------------
(* Claims *)

\* C1: pil_deepzoom generates exactly ceil(log2(max(W,H))) + 1 levels,
\* numbered 0..maxLevel in order with none skipped or repeated, and the top
\* level has exactly the size (W,H) of the source, power of two or not.
LevelCountAndTop ==
    /\ \A i \in 1..Len(levelsDone) : levelsDone[i].level = i - 1
    /\ (InLevels \/ AfterLevels) =>
          /\ width = src.W /\ height = src.H
          /\ IsCeilLog2(max_level, Max(src.W, src.H))
    /\ InLevels => level <= max_level /\ Len(levelsDone) = level
    /\ AfterLevels =>
          /\ Len(levelsDone) = max_level + 1
          /\ { t.level : t \in tiles } = 0..max_level
          /\ levelsDone[max_level + 1].w = src.W
          /\ levelsDone[max_level + 1].h = src.H
    /\ (RasterReady /\ level = max_level) => level_w = src.W /\ level_h = src.H

\* C1 witness: a finished run on a source whose sides are no powers of two.
LevelCountAndTopWitness ==
    /\ pc = "Done" /\ pilRuns = 1
    /\ src.W = 3 /\ src.H = 3
    /\ Len(levelsDone) = 3
    /\ levelsDone[3].w = 3

\* C2: the tile loop writes exactly ceil(Lw/T) * ceil(Lh/T) rectangles for
\* a level raster (Lw,Lh), one per (col,row), and every pixel of the raster
\* lies in exactly one of them.
TilesPartitionRaster ==
    pc = "level_close" =>
        LET LT == LevelTiles(level)
            nc == CeilQ(level_w, tile_size)
            nr == CeilQ(level_h, tile_size)
        IN  /\ Cardinality(LT) = nc * nr
            /\ \A cc \in 0..(nc - 1), rr \in 0..(nr - 1) :
                  Cardinality({ t \in LT : t.col = cc /\ t.row = rr }) = 1
            /\ \A x \in 0..(level_w - 1), y \in 0..(level_h - 1) :
                  Cardinality({ t \in LT : /\ t.left <= x /\ x < t.right
                                           /\ t.upper <= y /\ y < t.lower }) = 1

\* C2 witness: a level cut into a 2 x 2 grid with partial edge tiles.
TilesPartitionRasterWitness ==
    /\ pc = "level_close"
    /\ level_w = 3 /\ level_h = 3 /\ tile_size = 2
    /\ Cardinality(LevelTiles(level)) = 4

\* C3: whenever image.dzi exists, during or after a run, failed runs
\* included, it is complete (never partial) and every tile file of every
\* level 0..maxLevel of the plan has been written.
DescriptorImpliesComplete ==
    dzi # "absent" =>
        /\ dzi = "complete"
        /\ vipsOutput \/ \A i \in 0..PlanTop : PlanTiles(i) \subseteq TileKeys

\* C4: a failing step of pil_deepzoom (decode, resample, directory, tile
\* write) ends the run in Failed at once: nothing is processed or retried
\* afterwards, what is on disk stays as it is, and no descriptor is written.
FailFast ==
    [][ /\ failure' # "none" => pc' = "Failed"
        /\ (failure = "none" /\ failure' # "none") =>
              /\ tiles' = tiles /\ levelDirs' = levelDirs /\ dzi' = dzi
              /\ levelsDone' = levelsDone /\ pilRuns' <= 1
        /\ failure # "none" =>
              /\ tiles' = tiles /\ levelDirs' = levelDirs /\ dzi' = dzi
              /\ level' = level /\ r' = r /\ c' = c
              /\ levelsDone' = levelsDone /\ pilRuns' = pilRuns
              /\ failure' = failure
        /\ failure' \in PyramidStepFailures => dzi' = "absent" /\ pilRuns' = 1
      ]_vars

\* C4 witness: a tile write failed after other tiles had been written.
FailFastWitness ==
    /\ pc = "Failed" /\ failure = "tile_save"
    /\ tiles # {}
    /\ PlanTiles(level) \ TileKeys # {}
    /\ dzi = "absent"

\* C5: whenever the selected external tool fails, for any kind of
\* invocation failure, main runs pil_deepzoom, and the tool's failure is
\* not what ends the run.
ToolFailureFallsBack ==
    (Terminated /\ vipsOutcome \in {"CalledProcessError", "OSError"}) =>
        /\ pilRuns = 1
        /\ failure # "vips_oserror"

StatusDistinguishesCause ==
    (pc = "Failed" /\ failure \in BadInputFailures) =>
        /\ exitStatus # << SuccessStatus >>
        /\ \A k \in EnvFailures : exitStatus # << ExitStatusOf(k) >>

\* C7 amended: every failed run exits non-zero; bad-input failures and
\* environment or tooling failures all exit with the same status, 1.
FailureStatusIsOne ==
    pc = "Failed" =>
        /\ Len(exitStatus) = 1
        /\ exitStatus[1] # 0
        /\ failure \in (BadInputFailures \cup EnvFailures) => exitStatus[1] = 1

\* C7 witness: a run failed on a missing input.
FailureStatusIsOneWitness ==
    /\ pc = "Failed" /\ failure = "input_missing"
    /\ exitStatus = << 1 >>

\* C8: level i has size (ceil(W / 2^(maxLevel-i)), ceil(H / 2^(maxLevel-i))):
\* at least 1x1, level 0 exactly 1x1, never shrinking as i grows; 1x1 gives
\* the single level 0; 512x256 gives 10 levels, level 8 = (256,128).
LevelSizes ==
    /\ RasterReady =>
          /\ level_w = CeilQ(src.W, 2^(PlanTop - level))
          /\ level_h = CeilQ(src.H, 2^(PlanTop - level))
          /\ level_w >= 1 /\ level_h >= 1
          /\ level = 0 => level_w = 1 /\ level_h = 1
    /\ \A i \in 1..Len(levelsDone), j \in 1..Len(levelsDone) :
          i <= j => levelsDone[i].w <= levelsDone[j].w /\ levelsDone[i].h <= levelsDone[j].h
    /\ (AfterLevels /\ src.W = 1 /\ src.H = 1) =>
          levelsDone = << [level |-> 0, w |-> 1, h |-> 1] >>
    /\ (AfterLevels /\ src.W = 512 /\ src.H = 256) =>
          /\ Len(levelsDone) = 10
          /\ levelsDone[1] = [level |-> 0, w |-> 1, h |-> 1]
          /\ levelsDone[9] = [level |-> 8, w |-> 256, h |-> 128]
          /\ levelsDone[10] = [level |-> 9, w |-> 512, h |-> 256]

\* C8 witness: the 512x256 pyramid is finished.
LevelSizesWitness ==
    /\ pc = "Done" /\ pilRuns = 1
    /\ src.W = 512 /\ src.H = 256
    /\ Len(levelsDone) = 10

\* C9: the rectangle of grid position (col,row) is (col*T, row*T,
\* min(col*T+T, Lw), min(row*T+T, Lh)); it lies inside the raster with
\* 0 < right-left <= T and 0 < lower-upper <= T; an edge tile is smaller
\* than T, never padded (Lw=300, T=256: columns [0,256) and [256,300)).
TileRectangles ==
    /\ (pc \in {"tile", "level_close"}) =>
          \A t \in LevelTiles(level) :
             /\ t.left = t.col * tile_size
             /\ t.upper = t.row * tile_size
             /\ t.right = (IF t.left + tile_size <= level_w THEN t.left + tile_size ELSE level_w)
             /\ t.lower = (IF t.upper + tile_size <= level_h THEN t.upper + tile_size ELSE level_h)
             /\ 0 <= t.left /\ t.left < t.right /\ t.right <= level_w
             /\ 0 <= t.upper /\ t.upper < t.lower /\ t.lower <= level_h
             /\ t.right - t.left <= tile_size
             /\ t.lower - t.upper <= tile_size
             /\ (t.col + 1) * tile_size > level_w => t.right - t.left = level_w - t.col * tile_size
             /\ (t.row + 1) * tile_size > level_h => t.lower - t.upper = level_h - t.row * tile_size
    /\ (pc = "level_close" /\ level_w = 300 /\ tile_size = 256) =>
          /\ { t.col : t \in LevelTiles(level) } = {0, 1}
          /\ { << t.col, t.left, t.right >> : t \in LevelTiles(level) }
                = { << 0, 0, 256 >>, << 1, 256, 300 >> }

\* C9 witness: the 300-wide level has been cut with tile size 256.
TileRectanglesWitness ==
    /\ pc = "level_close"
    /\ level_w = 300 /\ tile_size = 256
    /\ \E t \in LevelTiles(level) : t.right - t.left = 44

\* C10: at most one level raster is held at any time; the raster of level i
\* is released only once every tile of level i has been written, and a
\* raster is created only when no other one is held.
OneLevelAtATime ==
    [][ /\ Cardinality(held) <= 1 /\ Cardinality(held') <= 1
        /\ \A i \in held \ held' : PlanTiles(i) \subseteq { << t.level, t.col, t.row >> : t \in tiles }
        /\ \A i \in held' \ held : held = {}
      ]_vars

\* C10 witness: the raster of a level above 0 is held, its tiles not yet
\* complete, the rasters of the levels below released.
OneLevelAtATimeWitness ==
    /\ pc = "tile" /\ level >= 1
    /\ held = {level}
    /\ PlanTiles(level - 1) \subseteq TileKeys
    /\ LevelTiles(level) # {}

=============================================================================
